---- MODULE Spec2Model ----
(***************************************************************************)
(* A model of the helper layers of python-sqlalchemy:                      *)
(*   - query_ex1/async_base.py: AsyncQuerySet (fluent query builder) and   *)
(*     AsyncBaseModel (select / create / update / bulk_update / delete);   *)
(*   - combination/model.py: BaseModel (save / add / add_all / save_all /  *)
(*     bulk_save).                                                         *)
(* The database behind the session is modelled as two small tables (users  *)
(* and posts, query_ex1/models.py) together with the part of SQL SELECT    *)
(* that the builder can compose: JOIN, WHERE, GROUP BY, ORDER BY, LIMIT    *)
(* and OFFSET.                                                             *)
(***************************************************************************)
EXTENDS Integers, Sequences, FiniteSets, TLC

VARIABLES
    db,         \* the committed database: [users |-> Seq(row), posts |-> Seq(row)]
    qs,         \* the AsyncQuerySet under construction (its fields)
    hist,       \* the builder calls made on qs so far, per kind, with their arguments
    executed,   \* number of queries executed against the session of qs
    terminals,  \* number of terminal calls (list, first, count) made on qs
    ret,        \* what the last call returned or raised
    txlog,      \* transaction events of the last create/update/bulk_update/delete
    lists,      \* the list objects of combination/model.py: list 0 is the class
                \* attribute BaseModel._model_list, the others belong to callers
    attr,       \* per instance: the list its own _model_list attribute names, or None
    persisted,  \* the instances committed to the database
    events,     \* what the last BaseModel call did on its session, in order
    mret,       \* what the last BaseModel call returned or raised
    dto,        \* the last call on ORMDefinition / DTOBase: its arguments and result
    sess,       \* the sessions made by AsyncSessionFactory, in order of creation
    tasks       \* per asyncio task: the AsyncBaseModel call it is running

vars == <<db, qs, hist, executed, terminals, ret, txlog,
          lists, attr, persisted, events, mret, dto, sess, tasks>>

modelVars == <<lists, attr, persisted, events, mret>>

otherVars == <<dto, sess, tasks>>

----------------------------------------------------------------------------
(* Bounds *)

MaxCalls == 3        \* builder calls made on one queryset
MaxTerminals == 2    \* terminal calls made on one queryset
MaxPick == 2         \* the database's arbitrary choices are drawn from 0..MaxPick
MaxUsers == 2        \* rows of the users table that create() may fill
MaxId == 2           \* largest primary key create() may hand out
MaxDicts == 2        \* length of the list passed to bulk_update
MaxQueue == 2        \* length a list of pending models may grow to
MaxSessions == 3     \* sessions the factory hands out in one run

----------------------------------------------------------------------------
(* Python values *)

\* Optional values: <<>> is None, <<v>> is the value v.
NoneVal == <<>>
Some(v) == <<v>>

\* Truth value of an optional int: None and 0 are false.
TruthyInt(o) == o # NoneVal /\ o[1] # 0

\* Truth value of a list / tuple: empty is false.
TruthySeq(s) == s # <<>>

Min(a, b) == IF a < b THEN a ELSE b
Max(a, b) == IF a < b THEN b ELSE a

----------------------------------------------------------------------------
(* The tables of query_ex1/models.py *)

UserRow(i, n, a) == [id |-> i, name |-> n, email |-> "john@example.com", age |-> a]
PostRow(i, u) == [id |-> i, title |-> "First Post", user_id |-> u]

\* the NULL row of an outer join that found no partner
NoPost == [id |-> 0, title |-> "NULL", user_id |-> 0]

\* Database contents the queries are run against.
DB3 == [users |-> <<UserRow(1, "John", 30), UserRow(2, "Ann", 17), UserRow(3, "John", 30)>>,
        posts |-> <<PostRow(1, 1), PostRow(2, 1)>>]
DB0 == [users |-> <<>>, posts |-> <<>>]
Databases == {DB0, DB3}

----------------------------------------------------------------------------
(* Arguments of the builder calls *)

\* where(*conditions): conditions on the model's own columns (main.py)
Conditions == {"User.age >= 18", "User.name == Ann"}
WhereArgs == {<<c>> : c \in Conditions} \cup {<<"User.age >= 18", "User.name == Ann">>}

\* order_by(*ordering)
Orderings == {"User.age", "User.id.desc()"}
OrderArgs == {<<o>> : o \in Orderings}

\* group_by(*grouping)
Groupings == {"User.age", "User.name"}
GroupArgs == {<<g>> : g \in Groupings}

\* join(target, onclause=None, isouter=False)
JoinArgs ==
    { [target |-> "Post", onclause |-> NoneVal, isouter |-> FALSE],
      [target |-> "Post", onclause |-> Some("Post.id == User.id"), isouter |-> TRUE] }

\* select(*fields)
FieldArgs == {<<>>, <<"User.name", "User.age">>}

\* paginate(page, page_size): a first page of size 0, a page before the
\* first, and a second page
PaginateArgs == {<<1, 0>>, <<0, 2>>, <<2, 2>>}

----------------------------------------------------------------------------
(* The SELECT statements the builder composes, and their execution *)

\* sa_select(*columns): a statement with no clauses
sa_select(columns) ==
    [cols |-> columns, whereC |-> <<>>, orderC |-> <<>>, groupC |-> <<>>,
     joinC |-> <<>>, lim |-> NoneVal, off |-> NoneVal]

\* generative methods of the statement: each returns a statement with the
\* clause added after the ones already there
q_where(q, conds) == [q EXCEPT !.whereC = @ \o conds]
q_order_by(q, ords) == [q EXCEPT !.orderC = @ \o ords]
q_group_by(q, grps) == [q EXCEPT !.groupC = @ \o grps]
q_join(q, j) == [q EXCEPT !.joinC = Append(@, j)]
q_limit(q, n) == [q EXCEPT !.lim = Some(n)]
q_offset(q, n) == [q EXCEPT !.off = Some(n)]

RECURSIVE q_joins(_, _)
\* for target, onclause, isouter in self._joins: q = q.join(...)
q_joins(q, joins) ==
    IF joins = <<>> THEN q
    ELSE q_joins(q_join(q, Head(joins)), Tail(joins))

\* a condition evaluated on one row of the FROM clause
CondHolds(c, row) ==
    CASE c = "User.age >= 18" -> row.u.age >= 18
      [] c = "User.id == 1" -> row.u.id = 1
      [] c = "User.name == Ann" -> row.u.name = "Ann"

\* the ON clause of a join; without onclause it is the foreign key
\* posts.user_id = users.id
OnHolds(on, u, p) ==
    IF on = NoneVal THEN p.user_id = u.id ELSE p.id = u.id

\* sort key of an ordering (ascending on the returned number)
OrderKey(o, row) ==
    CASE o = "User.age" -> row.u.age
      [] o = "User.id.desc()" -> 0 - row.u.id

\* value of a grouping column
GroupKey(g, row) ==
    CASE g = "User.age" -> <<row.u.age>>
      [] g = "User.name" -> <<row.u.name>>

\* value of a selected column
ColumnValue(c, row) ==
    CASE c = "User" -> row.u
      [] c = "User.id" -> row.u.id
      [] c = "User.name" -> row.u.name
      [] c = "User.age" -> row.u.age

\* FROM users
FromRows(d) == [i \in 1..Len(d.users) |-> [u |-> d.users[i], p |-> NoPost]]

\* rows JOIN posts ON on (LEFT OUTER JOIN when isouter)
RECURSIVE JoinRows(_, _, _)
JoinRows(rows, j, d) ==
    IF rows = <<>> THEN <<>>
    ELSE LET u == Head(rows).u
             Match(p) == OnHolds(j.onclause, u, p)
             partners == SelectSeq(d.posts, Match)
             joined == [i \in 1..Len(partners) |-> [u |-> u, p |-> partners[i]]]
         IN  (IF partners = <<>> /\ j.isouter THEN <<[u |-> u, p |-> NoPost]>> ELSE joined)
             \o JoinRows(Tail(rows), j, d)

RECURSIVE JoinAll(_, _, _)
JoinAll(rows, joins, d) ==
    IF joins = <<>> THEN rows
    ELSE JoinAll(JoinRows(rows, Head(joins), d), Tail(joins), d)

\* the same table joined twice without an alias is rejected by the database
DuplicateTarget(joins) ==
    \E i, j \in 1..Len(joins) : i # j /\ joins[i].target = joins[j].target

\* WHERE c1 AND c2 ...
WhereRows(rows, conds) ==
    LET Keep(r) == \A i \in 1..Len(conds) : CondHolds(conds[i], r)
    IN  SelectSeq(rows, Keep)

\* GROUP BY: one row per distinct key, in order of first appearance.  The
\* columns that are not grouped come from an arbitrary row of the group:
\* pick selects which one.
GroupKeys(gs, row) == [i \in 1..Len(gs) |-> GroupKey(gs[i], row)]

RECURSIVE GroupRows(_, _, _)
GroupRows(rows, gs, pick) ==
    IF rows = <<>> THEN <<>>
    ELSE LET k == GroupKeys(gs, Head(rows))
             Same(r) == GroupKeys(gs, r) = k
             Other(r) == GroupKeys(gs, r) # k
             members == SelectSeq(rows, Same)
         IN  <<members[(pick % Len(members)) + 1]>>
             \o GroupRows(SelectSeq(rows, Other), gs, pick)

\* ORDER BY o1, o2, ...: a stable sort on the keys, lexicographically
RECURSIVE RowLess(_, _, _)
RowLess(a, b, os) ==
    IF os = <<>> THEN FALSE
    ELSE \/ OrderKey(Head(os), a) < OrderKey(Head(os), b)
         \/ /\ OrderKey(Head(os), a) = OrderKey(Head(os), b)
            /\ RowLess(a, b, Tail(os))

RECURSIVE InsertRow(_, _, _)
InsertRow(sorted, r, os) ==
    IF sorted = <<>> THEN <<r>>
    ELSE IF RowLess(r, Head(sorted), os) THEN <<r>> \o sorted
         ELSE <<Head(sorted)>> \o InsertRow(Tail(sorted), r, os)

RECURSIVE OrderRows(_, _)
OrderRows(rows, os) ==
    IF rows = <<>> THEN <<>>
    ELSE InsertRow(OrderRows(SubSeq(rows, 1, Len(rows) - 1), os), rows[Len(rows)], os)

\* OFFSET n (a negative offset counts as 0) and LIMIT n (a negative limit
\* is no limit), as SQLite does
OffsetRows(rows, off) ==
    IF off = NoneVal THEN rows
    ELSE SubSeq(rows, Max(off[1], 0) + 1, Len(rows))

LimitRows(rows, lim) ==
    IF lim = NoneVal \/ lim[1] < 0 THEN rows
    ELSE SubSeq(rows, 1, Min(lim[1], Len(rows)))

\* the rows of the FROM/JOIN/WHERE/GROUP BY/ORDER BY part of a statement
MatchedRows(q, d, pick) ==
    LET joined == JoinAll(FromRows(d), q.joinC, d)
        kept == WhereRows(joined, q.whereC)
        grouped == IF q.groupC = <<>> THEN kept ELSE GroupRows(kept, q.groupC, pick)
    IN  IF q.orderC = <<>> THEN grouped ELSE OrderRows(grouped, q.orderC)

\* the result rows: each one the tuple of the selected columns
Project(cols, row) == [i \in 1..Len(cols) |-> ColumnValue(cols[i], row)]

ResultRows(q, d, pick) ==
    IF q.cols = <<"count(*)">>
    THEN <<  <<Len(MatchedRows(q, d, pick))>>  >>
    ELSE LET page == LimitRows(OffsetRows(MatchedRows(q, d, pick), q.off), q.lim)
         IN  [i \in 1..Len(page) |-> Project(q.cols, page[i])]

\* session.execute(q): the result rows, or an error of the database
session_execute(q, d, pick) ==
    IF DuplicateTarget(q.joinC)
    THEN [err |-> TRUE, rows |-> <<>>]
    ELSE [err |-> FALSE, rows |-> ResultRows(q, d, pick)]

----------------------------------------------------------------------------
(* Result objects *)

\* Result.unique(): drops the rows that repeat an earlier row
RECURSIVE unique(_)
unique(rows) ==
    IF rows = <<>> THEN <<>>
    ELSE LET r == rows[Len(rows)]
             before == unique(SubSeq(rows, 1, Len(rows) - 1))
         IN  IF \E i \in 1..Len(before) : before[i] = r THEN before ELSE Append(before, r)

\* Result.scalars(): the first column of every row
scalars(rows) == [i \in 1..Len(rows) |-> rows[i][1]]

\* .first(): the first element or None
first_of(rows) == IF rows = <<>> THEN NoneVal ELSE Some(rows[1])

----------------------------------------------------------------------------
(* BaseModel of combination/model.py: the state *)

\* the model instances (User objects)
Models == {"u1", "u2"}

\* list objects: 0 is BaseModel._model_list, 1 is a list of a caller
ClassList == 0
ListIds == {0, 1}

NoEvents == <<>>

NoDto == [op |-> "none"]

\* the asyncio tasks that call AsyncBaseModel
Tasks == {"t1", "t2"}

InitOtherVars ==
    /\ dto = NoDto
    /\ sess = <<>>
    /\ tasks = [t \in Tasks |-> [pc |-> "idle", op |-> "none", session |-> 0]]

InitModelVars ==
    /\ lists = [l \in ListIds |-> IF l = ClassList THEN <<>> ELSE <<"u1", "u2">>]
    /\ attr = [m \in Models |-> NoneVal]
    /\ persisted = {}
    /\ events = NoEvents
    /\ mret = [op |-> "none", self |-> "none", err |-> FALSE, val |-> "none", queued |-> <<>>, cause |-> NoneVal]

----------------------------------------------------------------------------
(* AsyncQuerySet *)

\* AsyncQuerySet.__init__(model, session, fields)
AsyncQuerySet(model, fields) ==
    [model |-> model, _fields |-> fields, _filters |-> <<>>, _order |-> <<>>,
     _group |-> <<>>, _joins |-> <<>>, _limit |-> NoneVal, _offset |-> NoneVal]

NoHist == [select |-> NoneVal, where |-> <<>>, order_by |-> <<>>, group_by |-> <<>>, join |-> <<>>,
           paginate |-> <<>>]

NumCalls == Len(hist.where) + Len(hist.order_by) + Len(hist.group_by)
            + Len(hist.join) + Len(hist.paginate)

NoQuery == sa_select(<<>>)

\* a builder call returns self
ReturnsSelf(op) == [op |-> op, err |-> FALSE, val |-> "self", query |-> NoQuery, pick |-> 0]

\* list() as it would be if it left the grouping out, as first() does
list_query_nogroup(s) ==
    LET q0 == sa_select(IF TruthySeq(s._fields) THEN s._fields ELSE <<s.model>>)
        q1 == IF TruthySeq(s._filters) THEN q_where(q0, s._filters) ELSE q0
        q2 == IF TruthySeq(s._order) THEN q_order_by(q1, s._order) ELSE q1
        q4 == q_joins(q2, s._joins)
        q5 == IF TruthyInt(s._limit) THEN q_limit(q4, s._limit[1]) ELSE q4
    IN  IF TruthyInt(s._offset) THEN q_offset(q5, s._offset[1]) ELSE q5

\* the statement composed by list()
list_query(s) ==
    LET q0 == sa_select(IF TruthySeq(s._fields) THEN s._fields ELSE <<s.model>>)
        q1 == IF TruthySeq(s._filters) THEN q_where(q0, s._filters) ELSE q0
        q2 == IF TruthySeq(s._order) THEN q_order_by(q1, s._order) ELSE q1
        q3 == IF TruthySeq(s._group) THEN q_group_by(q2, s._group) ELSE q2
        q4 == q_joins(q3, s._joins)
        q5 == IF TruthyInt(s._limit) THEN q_limit(q4, s._limit[1]) ELSE q4
    IN  IF TruthyInt(s._offset) THEN q_offset(q5, s._offset[1]) ELSE q5

\* list() as it would be if it de-duplicated the rows of a field query too
list_result_unique(s, rows) ==
    IF ~ TruthySeq(s._fields) THEN scalars(unique(rows)) ELSE unique(rows)

\* what list() returns from the result rows
list_result(s, rows) ==
    IF ~ TruthySeq(s._fields) THEN scalars(unique(rows)) ELSE rows

\* the statement composed by first()
first_query(s) ==
    LET q0 == sa_select(IF TruthySeq(s._fields) THEN s._fields ELSE <<s.model>>)
        q1 == IF TruthySeq(s._filters) THEN q_where(q0, s._filters) ELSE q0
        q2 == IF TruthySeq(s._order) THEN q_order_by(q1, s._order) ELSE q1
        q3 == q_joins(q2, s._joins)
    IN  q_limit(q3, 1)

\* what first() returns from the result rows
first_result(s, rows) ==
    IF ~ TruthySeq(s._fields) THEN first_of(scalars(unique(rows))) ELSE first_of(rows)

\* the statement composed by count()
count_query(s) ==
    LET q0 == sa_select(<<"count(*)">>)
    IN  IF TruthySeq(s._filters) THEN q_where(q0, s._filters) ELSE q0

\* session.scalar(q): the first column of the first row
session_scalar(rows) == rows[1][1]

\* the choices the database has when it executes q: they matter only to a
\* GROUP BY
Picks(q) == IF q.groupC = <<>> THEN {0} ELSE 0..MaxPick

\* AsyncBaseModel.select(*fields): a new queryset on a new session
select(fields) ==
    /\ qs' = AsyncQuerySet("User", fields)
    /\ hist' = [NoHist EXCEPT !.select = fields]
    /\ executed' = 0
    /\ terminals' = 0
    /\ ret' = [op |-> "select", err |-> FALSE, val |-> "queryset", query |-> NoQuery, pick |-> 0]
    /\ UNCHANGED <<db, txlog, modelVars, otherVars>>

\* where() as it would be if it ran the query at once
where_eager(conditions) ==
    /\ NumCalls < MaxCalls
    /\ qs' = [qs EXCEPT !._filters = @ \o conditions]
    /\ hist' = [hist EXCEPT !.where = Append(@, conditions)]
    /\ ret' = ReturnsSelf("where")
    /\ executed' = executed + 1
    /\ UNCHANGED <<db, terminals, txlog, modelVars, otherVars>>

where(conditions) ==
    /\ NumCalls < MaxCalls
    /\ qs' = [qs EXCEPT !._filters = @ \o conditions]
    /\ hist' = [hist EXCEPT !.where = Append(@, conditions)]
    /\ ret' = ReturnsSelf("where")
    /\ UNCHANGED <<db, executed, terminals, txlog, modelVars, otherVars>>

\* order_by() as it would be if it put the new ordering first
order_by_prepend(ordering) ==
    /\ NumCalls < MaxCalls
    /\ qs' = [qs EXCEPT !._order = ordering \o @]
    /\ hist' = [hist EXCEPT !.order_by = Append(@, ordering)]
    /\ ret' = ReturnsSelf("order_by")
    /\ UNCHANGED <<db, executed, terminals, txlog, modelVars, otherVars>>

order_by(ordering) ==
    /\ NumCalls < MaxCalls
    /\ qs' = [qs EXCEPT !._order = @ \o ordering]
    /\ hist' = [hist EXCEPT !.order_by = Append(@, ordering)]
    /\ ret' = ReturnsSelf("order_by")
    /\ UNCHANGED <<db, executed, terminals, txlog, modelVars, otherVars>>

group_by(grouping) ==
    /\ NumCalls < MaxCalls
    /\ qs' = [qs EXCEPT !._group = @ \o grouping]
    /\ hist' = [hist EXCEPT !.group_by = Append(@, grouping)]
    /\ ret' = ReturnsSelf("group_by")
    /\ UNCHANGED <<db, executed, terminals, txlog, modelVars, otherVars>>

\* join() as it would be if it dropped the ordering collected so far
join_reset(j) ==
    /\ NumCalls < MaxCalls
    /\ qs' = [qs EXCEPT !._joins = Append(@, j), !._order = <<>>]
    /\ hist' = [hist EXCEPT !.join = Append(@, j)]
    /\ ret' = ReturnsSelf("join")
    /\ UNCHANGED <<db, executed, terminals, txlog, modelVars, otherVars>>

join(j) ==
    /\ NumCalls < MaxCalls
    /\ qs' = [qs EXCEPT !._joins = Append(@, j)]
    /\ hist' = [hist EXCEPT !.join = Append(@, j)]
    /\ ret' = ReturnsSelf("join")
    /\ UNCHANGED <<db, executed, terminals, txlog, modelVars, otherVars>>

paginate(page, page_size) ==
    /\ NumCalls < MaxCalls
    /\ qs' = [qs EXCEPT !._limit = Some(page_size),
                        !._offset = Some((page - 1) * page_size)]
    /\ hist' = [hist EXCEPT !.paginate = Append(@, <<page, page_size>>)]
    /\ ret' = ReturnsSelf("paginate")
    /\ UNCHANGED <<db, executed, terminals, txlog, modelVars, otherVars>>

list ==
    /\ terminals < MaxTerminals
    /\ LET q == list_query(qs)
       IN  \E pick \in Picks(q) :
             LET r == session_execute(q, db, pick)
             IN ret' = [op |-> "list", err |-> r.err,
                     val |-> IF r.err THEN <<>> ELSE list_result(qs, r.rows),
                     query |-> q, pick |-> pick]
    /\ executed' = executed + 1
    /\ terminals' = terminals + 1
    /\ UNCHANGED <<db, qs, hist, txlog, modelVars, otherVars>>

\* first() as it would be if it kept its LIMIT 1 on the queryset
first_sticky ==
    /\ terminals < MaxTerminals
    /\ LET q == first_query(qs)
       IN  \E pick \in Picks(q) :
             LET r == session_execute(q, db, pick)
             IN ret' = [op |-> "first", err |-> r.err,
                     val |-> IF r.err THEN NoneVal ELSE first_result(qs, r.rows),
                     query |-> q, pick |-> pick]
    /\ qs' = [qs EXCEPT !._limit = Some(1)]
    /\ executed' = executed + 1
    /\ terminals' = terminals + 1
    /\ UNCHANGED <<db, hist, txlog, modelVars, otherVars>>

first ==
    /\ terminals < MaxTerminals
    /\ LET q == first_query(qs)
       IN  \E pick \in Picks(q) :
             LET r == session_execute(q, db, pick)
             IN ret' = [op |-> "first", err |-> r.err,
                     val |-> IF r.err THEN NoneVal ELSE first_result(qs, r.rows),
                     query |-> q, pick |-> pick]
    /\ executed' = executed + 1
    /\ terminals' = terminals + 1
    /\ UNCHANGED <<db, qs, hist, txlog, modelVars, otherVars>>

count ==
    /\ terminals < MaxTerminals
    /\ LET q == count_query(qs)
       IN  \E pick \in Picks(q) :
             LET r == session_execute(q, db, pick)
             IN ret' = [op |-> "count", err |-> r.err,
                     val |-> IF r.err THEN 0 ELSE session_scalar(r.rows),
                     query |-> q, pick |-> pick]
    /\ executed' = executed + 1
    /\ terminals' = terminals + 1
    /\ UNCHANGED <<db, qs, hist, txlog, modelVars, otherVars>>

NoTx == <<>>

InitQuery ==
    /\ db = DB3
    /\ qs = AsyncQuerySet("User", NoneVal)
    /\ hist = NoHist
    /\ executed = 0
    /\ terminals = 0
    /\ ret = [op |-> "select", err |-> FALSE, val |-> "queryset", query |-> NoQuery, pick |-> 0]
    /\ txlog = NoTx
    /\ InitModelVars
    /\ InitOtherVars

NextQuery ==
    \/ \E f \in FieldArgs : select(f)
    \/ \E c \in WhereArgs : where(c)
    \/ \E o \in OrderArgs : order_by(o)
    \/ \E g \in GroupArgs : group_by(g)
    \/ \E j \in JoinArgs : join(j)
    \/ \E a \in PaginateArgs : paginate(a[1], a[2])
    \/ list
    \/ first
    \/ count

SpecQuery == InitQuery /\ [][NextQuery]_vars

----------------------------------------------------------------------------
(* AsyncBaseModel.create / update / bulk_update / delete *)

Columns == {"id", "name", "email", "age"}

\* create(**kwargs): the call of main.py, one without email (NOT NULL) and
\* one with a keyword that is no attribute of the model
CreateArgs ==
    { [name |-> "John", email |-> "john@example.com", age |-> 30],
      [name |-> "John", age |-> 30],
      [name |-> "John", email |-> "john@example.com", age |-> 30, bogus |-> 1] }

\* where_clause of update and delete
WhereClauses == {"User.id == 1", "User.age >= 18"}

\* values of update
UpdateArgs == { [name |-> "Johnny"], [id |-> 1], [bogus |-> 1] }

\* the dicts of bulk_update
Dicts ==
    { [id |-> 1, age |-> 31], [id |-> 1, age |-> 17], [age |-> 30, name |-> "Johnny"] }
KeyFields == {"id", "age"}

RECURSIVE SeqsUpTo(_, _)
SeqsUpTo(S, n) ==
    IF n = 0 THEN {<<>>}
    ELSE SeqsUpTo(S, n - 1) \cup {Append(l, x) : l \in SeqsUpTo(S, n - 1), x \in S}

DictLists == SeqsUpTo(Dicts, MaxDicts) \ {<<>>}

\* the primary key the database gives to the next inserted row
NextId(users) ==
    IF users = <<>> THEN 1
    ELSE 1 + (CHOOSE m \in {users[i].id : i \in 1..Len(users)} :
                 \A i \in 1..Len(users) : users[i].id <= m)

DuplicateIds(users) ==
    \E i, j \in 1..Len(users) : i # j /\ users[i].id = users[j].id

\* the rows (by position) a where_clause selects
MatchingRows(users, where_clause) ==
    {i \in 1..Len(users) : CondHolds(where_clause, [u |-> users[i]])}

\* the rows (by position) whose column equals value
RowsWithKey(users, column, value) ==
    {i \in 1..Len(users) : users[i][column] = value}

\* UPDATE users SET data WHERE the row is one of matched: the table afterwards
UpdateRows(users, matched, data) ==
    [i \in 1..Len(users) |->
        IF i \in matched
        THEN [c \in Columns |-> IF c \in DOMAIN data THEN data[c] ELSE users[i][c]]
        ELSE users[i]]

\* session.execute(sa_update(cls).where(...).values(**data)): the statement
\* fails on a column the table does not have and on a duplicate primary key
execute_update(users, matched, data) ==
    IF ~ (DOMAIN data \subseteq Columns) \/ DuplicateIds(UpdateRows(users, matched, data))
    THEN [raised |-> TRUE, users |-> users]
    ELSE [raised |-> FALSE, users |-> UpdateRows(users, matched, data)]

\* session.execute(sa_delete(cls).where(...))
execute_delete(users, matched) ==
    LET keep == {i \in 1..Len(users) : i \notin matched}
        Pos(n) == Cardinality({i \in keep : i <= n})
    IN  [k \in 1..Cardinality(keep) |-> users[CHOOSE i \in keep : Pos(i) = k]]

\* The body of a "async with session.begin()" block, run on the table users:
\*   raised   an exception left the body
\*   users    the table as the statements executed so far left it
\*   pending  objects added to the session, inserted by the flush of commit
\*   log      what the body did
\* create: obj = cls(**kwargs); session.add(obj)
create_body(users, kwargs) ==
    IF ~ (DOMAIN kwargs \subseteq Columns)
    THEN [raised |-> TRUE, users |-> users, pending |-> <<>>, log |-> <<"raise">>]
    ELSE [raised |-> FALSE, users |-> users, pending |-> <<kwargs>>, log |-> <<"add">>]

\* update: session.execute(sa_update(cls).where(where_clause).values(**values))
update_body(users, where_clause, values) ==
    LET r == execute_update(users, MatchingRows(users, where_clause), values)
    IN  [raised |-> r.raised, users |-> r.users, pending |-> <<>>,
         log |-> IF r.raised THEN <<"execute", "raise">> ELSE <<"execute">>]

\* bulk_update as it would be if it went through the list from its end
RECURSIVE bulk_update_body_reversed(_, _, _)
bulk_update_body_reversed(users, list_of_dicts, key_field) ==
    IF list_of_dicts = <<>>
    THEN [raised |-> FALSE, users |-> users, pending |-> <<>>, log |-> <<>>]
    ELSE LET data == list_of_dicts[Len(list_of_dicts)]
         IN  IF key_field \notin DOMAIN data
             THEN [raised |-> TRUE, users |-> users, pending |-> <<>>, log |-> <<"raise">>]
             ELSE LET r == execute_update(users,
                                RowsWithKey(users, key_field, data[key_field]), data)
                      rest == bulk_update_body_reversed(r.users,
                                  SubSeq(list_of_dicts, 1, Len(list_of_dicts) - 1), key_field)
                  IN  IF r.raised
                      THEN [raised |-> TRUE, users |-> users, pending |-> <<>>,
                            log |-> <<"execute", "raise">>]
                      ELSE [rest EXCEPT !.log = <<"execute">> \o @]

\* bulk_update: for data in list_of_dicts:
\*     session.execute(sa_update(cls).where(cls.key_field == data[key_field]).values(**data))
RECURSIVE bulk_update_body(_, _, _)
bulk_update_body(users, list_of_dicts, key_field) ==
    IF list_of_dicts = <<>>
    THEN [raised |-> FALSE, users |-> users, pending |-> <<>>, log |-> <<>>]
    ELSE LET data == Head(list_of_dicts)
         IN  IF key_field \notin DOMAIN data
             THEN [raised |-> TRUE, users |-> users, pending |-> <<>>, log |-> <<"raise">>]
             ELSE LET r == execute_update(users,
                                RowsWithKey(users, key_field, data[key_field]), data)
                      rest == bulk_update_body(r.users, Tail(list_of_dicts), key_field)
                  IN  IF r.raised
                      THEN [raised |-> TRUE, users |-> users, pending |-> <<>>,
                            log |-> <<"execute", "raise">>]
                      ELSE [rest EXCEPT !.log = <<"execute">> \o @]

\* delete: session.execute(sa_delete(cls).where(where_clause))
delete_body(users, where_clause) ==
    [raised |-> FALSE, users |-> execute_delete(users, MatchingRows(users, where_clause)),
     pending |-> <<>>, log |-> <<"execute">>]

\* the row an added object becomes when it is flushed: the database hands
\* out the primary key
FlushedRow(users, obj) ==
    [c \in Columns |-> IF c \in DOMAIN obj THEN obj[c] ELSE NextId(users)]

\* the INSERT of the flush fails when a NOT NULL column has no value
FlushFails(pending) ==
    \E i \in 1..Len(pending) : ~ ({"name", "email", "age"} \subseteq DOMAIN pending[i])

\* the block as it would be if leaving it by an exception did not roll back
run_in_transaction_norollback(users, body) ==
    IF body.raised
    THEN [raised |-> TRUE, users |-> body.users, objs |-> <<>>,
          log |-> <<"begin">> \o body.log \o <<"commit">>]
    ELSE IF FlushFails(body.pending)
    THEN [raised |-> TRUE, users |-> users, objs |-> <<>>,
          log |-> <<"begin">> \o body.log \o <<"flush-error", "rollback">>]
    ELSE LET rows == [i \in 1..Len(body.pending) |-> FlushedRow(body.users, body.pending[i])]
         IN  [raised |-> FALSE, users |-> body.users \o rows, objs |-> rows,
              log |-> <<"begin">> \o body.log \o <<"commit">>]

\* async with session.begin(): the block rolls back and lets the exception
\* through when the body raises; otherwise it commits, which first flushes
\* the pending objects, and a failing flush rolls back and raises as well
run_in_transaction(users, body) ==
    IF body.raised
    THEN [raised |-> TRUE, users |-> users, objs |-> <<>>,
          log |-> <<"begin">> \o body.log \o <<"rollback">>]
    ELSE IF FlushFails(body.pending)
    THEN [raised |-> TRUE, users |-> users, objs |-> <<>>,
          log |-> <<"begin">> \o body.log \o <<"flush-error", "rollback">>]
    ELSE LET rows == [i \in 1..Len(body.pending) |-> FlushedRow(body.users, body.pending[i])]
         IN  [raised |-> FALSE, users |-> body.users \o rows, objs |-> rows,
              log |-> <<"begin">> \o body.log \o <<"commit">>]

create(kwargs) ==
    /\ Len(db.users) < MaxUsers
    /\ NextId(db.users) <= MaxId
    /\ LET t == run_in_transaction(db.users, create_body(db.users, kwargs))
       IN  /\ db' = [db EXCEPT !.users = t.users]
           /\ txlog' = t.log
           /\ ret' = [op |-> "create", err |-> t.raised, args |-> <<kwargs>>,
                      val |-> IF t.raised THEN NoneVal ELSE Some(t.objs[1])]
    /\ UNCHANGED <<qs, hist, executed, terminals, modelVars, otherVars>>

update(where_clause, values) ==
    /\ LET t == run_in_transaction(db.users, update_body(db.users, where_clause, values))
       IN  /\ db' = [db EXCEPT !.users = t.users]
           /\ txlog' = t.log
           /\ ret' = [op |-> "update", err |-> t.raised, args |-> <<where_clause, values>>,
                      val |-> NoneVal]
    /\ UNCHANGED <<qs, hist, executed, terminals, modelVars, otherVars>>

bulk_update(list_of_dicts, key_field) ==
    /\ LET t == run_in_transaction(db.users,
                    bulk_update_body(db.users, list_of_dicts, key_field))
       IN  /\ db' = [db EXCEPT !.users = t.users]
           /\ txlog' = t.log
           /\ ret' = [op |-> "bulk_update", err |-> t.raised,
                      args |-> <<list_of_dicts, key_field>>, val |-> NoneVal]
    /\ UNCHANGED <<qs, hist, executed, terminals, modelVars, otherVars>>

delete(where_clause) ==
    /\ LET t == run_in_transaction(db.users, delete_body(db.users, where_clause))
       IN  /\ db' = [db EXCEPT !.users = t.users]
           /\ txlog' = t.log
           /\ ret' = [op |-> "delete", err |-> t.raised, args |-> <<where_clause>>,
                      val |-> NoneVal]
    /\ UNCHANGED <<qs, hist, executed, terminals, modelVars, otherVars>>

InitCrud ==
    /\ db \in Databases
    /\ qs = AsyncQuerySet("User", NoneVal)
    /\ hist = NoHist
    /\ executed = 0
    /\ terminals = 0
    /\ ret = [op |-> "none", err |-> FALSE, args |-> <<>>, val |-> NoneVal]
    /\ txlog = NoTx
    /\ InitModelVars
    /\ InitOtherVars

NextCrud ==
    \/ \E k \in CreateArgs : create(k)
    \/ \E w \in WhereClauses, v \in UpdateArgs : update(w, v)
    \/ \E l \in DictLists, k \in KeyFields : bulk_update(l, k)
    \/ \E w \in WhereClauses : delete(w)

SpecCrud == InitCrud /\ [][NextCrud]_vars

----------------------------------------------------------------------------
(* BaseModel.save / add / add_all / save_all / bulk_save *)

\* self._model_list: the instance attribute when add_all has set one, else
\* the class attribute
model_list(self) == IF attr[self] = NoneVal THEN ClassList ELSE attr[self][1]

Ev(e, m) == [e |-> e, m |-> m]

\* where the database may fail during bulk_save
FailPoints == {"none", "flush", "commit", "refresh"}

\* except Exception as e: raise Exception(e)
reraise(e) == [type |-> "Exception", args |-> <<e>>]

\* the start of bulk_save as it would be if it added the instance to the
\* session before calling its hook
bulk_save_enter_add_first(self) ==
    <<Ev("session", self), Ev("add", self), Ev("before_save", self)>>

\* async with orm.session() as session: self.before_save(); session.add(self)
bulk_save_enter(self) ==
    <<Ev("session", self), Ev("before_save", self), Ev("add", self)>>

\* bulk_save as it would be if it let a failing flush pass and went on
bulk_save_swallow(self, models, fail) ==
    LET start == bulk_save_enter(self)
    IN  IF TruthySeq(models)
        THEN [raised |-> TRUE, committed |-> {}, cause |-> Some("UnmappedInstanceError"),
              events |-> start \o <<Ev("before_save", models[1]), Ev("add", "list"),
                                    Ev("raise", "UnmappedInstanceError")>>]
        ELSE IF fail = "flush"
        THEN [raised |-> FALSE, committed |-> {}, cause |-> NoneVal,
              events |-> start \o <<Ev("raise", "flush")>>]
        ELSE IF fail = "commit"
        THEN [raised |-> TRUE, committed |-> {}, cause |-> Some("commit"),
              events |-> start \o <<Ev("flush", self), Ev("raise", "commit")>>]
        ELSE IF fail = "refresh"
        THEN [raised |-> TRUE, committed |-> {self}, cause |-> Some("refresh"),
              events |-> start \o <<Ev("flush", self), Ev("commit", self),
                                    Ev("raise", "refresh")>>]
        ELSE [raised |-> FALSE, committed |-> {self}, cause |-> NoneVal,
              events |-> start \o <<Ev("flush", self), Ev("commit", self),
                                    Ev("refresh", self), Ev("after_save", self)>>
                         \o [i \in 1..Len(models) |-> Ev("after_save", models[i])]]

\* bulk_save(self, models): what it does on its session (events), which
\* instances its commit persists (committed), whether it raises and, when it
\* does, the error that the raised Exception wraps (cause).
\* session.add(models) is handed the list, which is no mapped instance: the
\* session rejects it and the exception leaves the loop at its first round.
bulk_save(self, models, fail) ==
    LET start == bulk_save_enter(self)
    IN  IF TruthySeq(models)
        THEN [raised |-> TRUE, committed |-> {}, cause |-> Some("UnmappedInstanceError"),
              events |-> start \o <<Ev("before_save", models[1]), Ev("add", "list"),
                                    Ev("raise", "UnmappedInstanceError")>>]
        ELSE IF fail = "flush"
        THEN [raised |-> TRUE, committed |-> {}, cause |-> Some("flush"),
              events |-> start \o <<Ev("raise", "flush")>>]
        ELSE IF fail = "commit"
        THEN [raised |-> TRUE, committed |-> {}, cause |-> Some("commit"),
              events |-> start \o <<Ev("flush", self), Ev("raise", "commit")>>]
        ELSE IF fail = "refresh"
        THEN [raised |-> TRUE, committed |-> {self}, cause |-> Some("refresh"),
              events |-> start \o <<Ev("flush", self), Ev("commit", self),
                                    Ev("raise", "refresh")>>]
        ELSE [raised |-> FALSE, committed |-> {self}, cause |-> NoneVal,
              events |-> start \o <<Ev("flush", self), Ev("commit", self),
                                    Ev("refresh", self), Ev("after_save", self)>>
                         \o [i \in 1..Len(models) |-> Ev("after_save", models[i])]]

\* save(): await self.bulk_save(self._model_list); self._model_list.clear(); return self
save(self, fail) ==
    /\ LET l == model_list(self)
           r == bulk_save(self, lists[l], fail)
       IN  /\ persisted' = persisted \cup r.committed
           /\ events' = r.events
           /\ lists' = IF r.raised THEN lists ELSE [lists EXCEPT ![l] = <<>>]
           /\ mret' = [op |-> "save", self |-> self, err |-> r.raised,
                       val |-> IF r.raised THEN reraise(r.cause[1]).type ELSE self,
                       queued |-> lists[l], cause |-> r.cause]
    /\ UNCHANGED <<attr, db, qs, hist, executed, terminals, ret, txlog, otherVars>>

\* add(model): self._model_list.append(model); return self
add(self, model) ==
    /\ Len(lists[model_list(self)]) < MaxQueue
    /\ lists' = [lists EXCEPT ![model_list(self)] = Append(@, model)]
    /\ events' = NoEvents
    /\ mret' = [op |-> "add", self |-> self, err |-> FALSE, val |-> self, queued |-> <<model>>,
                cause |-> NoneVal]
    /\ UNCHANGED <<attr, persisted, db, qs, hist, executed, terminals, ret, txlog, otherVars>>

\* add_all(models): self._model_list = models; return self
add_all(self, models) ==
    /\ attr' = [attr EXCEPT ![self] = Some(models)]
    /\ events' = NoEvents
    /\ mret' = [op |-> "add_all", self |-> self, err |-> FALSE, val |-> self,
                queued |-> lists[models], cause |-> NoneVal]
    /\ UNCHANGED <<lists, persisted, db, qs, hist, executed, terminals, ret, txlog, otherVars>>

\* save_all(models): the first model is popped, model.bulk_save(models) only
\* creates a coroutine that nothing awaits, so none of its body runs, and the
\* model is appended again
save_all(models) ==
    /\ lists' = IF TruthySeq(lists[models])
                THEN [lists EXCEPT ![models] = Append(Tail(@), Head(@))]
                ELSE lists
    /\ events' = NoEvents
    /\ mret' = [op |-> "save_all", self |-> "none", err |-> FALSE, val |-> "None",
                queued |-> lists[models], cause |-> NoneVal]
    /\ UNCHANGED <<attr, persisted, db, qs, hist, executed, terminals, ret, txlog, otherVars>>

\* orm.session: the property returns the factory async_sessionmaker(...),
\* not a session; these are the attributes a factory has
orm_session == [type |-> "async_sessionmaker", attrs |-> {"begin", "configure", "__call__"}]

\* where the database may fail during delete
DeleteFailPoints == {"none", "delete", "commit"}

\* delete(): try: orm.session.delete(self); orm.session.commit()
\*           except Exception as e: raise Exception(e)
\* what it does (events), what it removes and the error the raised Exception
\* wraps.  The attribute lookup orm.session.delete fails on the factory.
delete_instance(self, fail) ==
    IF "delete" \notin orm_session.attrs
    THEN [raised |-> TRUE, removed |-> {}, cause |-> Some("AttributeError"),
          events |-> <<Ev("raise", "AttributeError")>>]
    ELSE IF fail = "delete"
    THEN [raised |-> TRUE, removed |-> {}, cause |-> Some("delete"),
          events |-> <<Ev("raise", "delete")>>]
    ELSE IF "commit" \notin orm_session.attrs
    THEN [raised |-> TRUE, removed |-> {}, cause |-> Some("AttributeError"),
          events |-> <<Ev("delete", self), Ev("raise", "AttributeError")>>]
    ELSE IF fail = "commit"
    THEN [raised |-> TRUE, removed |-> {}, cause |-> Some("commit"),
          events |-> <<Ev("delete", self), Ev("raise", "commit")>>]
    ELSE [raised |-> FALSE, removed |-> {self}, cause |-> NoneVal,
          events |-> <<Ev("delete", self), Ev("commit", self)>>]

BaseModel_delete(self, fail) ==
    /\ LET r == delete_instance(self, fail)
       IN  /\ persisted' = persisted \ r.removed
           /\ events' = r.events
           /\ mret' = [op |-> "delete", self |-> self, err |-> r.raised,
                       val |-> IF r.raised THEN reraise(r.cause[1]).type ELSE "None",
                       queued |-> <<>>, cause |-> r.cause, fail |-> fail]
    /\ UNCHANGED <<lists, attr, db, qs, hist, executed, terminals, ret, txlog, otherVars>>

InitModel ==
    /\ db = DB0
    /\ qs = AsyncQuerySet("User", NoneVal)
    /\ hist = NoHist
    /\ executed = 0
    /\ terminals = 0
    /\ ret = [op |-> "none", err |-> FALSE, args |-> <<>>, val |-> NoneVal]
    /\ txlog = NoTx
    /\ InitModelVars
    /\ InitOtherVars

NextModel ==
    \/ \E m \in Models, f \in FailPoints : save(m, f)
    \/ \E m \in Models, x \in Models : add(m, x)
    \/ \E m \in Models, l \in ListIds \ {ClassList} : add_all(m, l)
    \/ \E l \in ListIds \ {ClassList} : save_all(l)
    \/ \E m \in Models, f \in DeleteFailPoints : BaseModel_delete(m, f)

SpecModel == InitModel /\ [][NextModel]_vars

----------------------------------------------------------------------------
(* Properties of the query builder *)

BuilderOps == {"where", "order_by", "group_by", "join", "paginate"}
TerminalOps == {"list", "first", "count"}

RECURSIVE Flatten(_)
Flatten(ss) == IF ss = <<>> THEN <<>> ELSE Head(ss) \o Flatten(Tail(ss))

\* the rows the database returned for the statement of the last terminal call
LastRows == session_execute(ret.query, db, ret.pick).rows

\* the records the statement of the last terminal call matched, after
\* OFFSET and LIMIT
LastPage ==
    LimitRows(OffsetRows(MatchedRows(ret.query, db, ret.pick), ret.query.off), ret.query.lim)

\* C1: the builder is lazy.  A where, order_by, group_by, join or paginate
\* call executes nothing against the session, each list, first or count call
\* executes exactly one query, and so the number of executed queries always
\* equals the number of terminal calls.
C1_Lazy ==
    /\ [](executed = terminals)
    /\ [][/\ ret'.op \in BuilderOps => executed' = executed
          /\ ret'.op \in TerminalOps => executed' = executed + 1 /\ terminals' = terminals + 1]_vars

C1_Witness == executed = 2 /\ terminals = 2 /\ NumCalls >= 2

\* C2: the query executed by list() holds every condition, ordering,
\* grouping and join that the calls made so far passed in, each kind in call
\* order, and nothing else.
C2_ListComposesAll ==
    ret.op = "list" =>
        /\ ret.query.whereC = Flatten(hist.where)
        /\ ret.query.orderC = Flatten(hist.order_by)
        /\ ret.query.groupC = Flatten(hist.group_by)
        /\ ret.query.joinC = hist.join

C2_Witness ==
    /\ ret.op = "list"
    /\ hist.where # <<>> /\ hist.group_by # <<>> /\ hist.join # <<>>

\* C3 (as claimed): after paginate(page, page_size) with page >= 1 and
\* page_size >= 0, the query of list() returns the rows of the unpaginated
\* query from position (page - 1) * page_size + 1 on, at most page_size of
\* them; the last paginate call is the one that counts.
C3_PaginateWindow ==
    (ret.op = "list" /\ ~ ret.err /\ hist.paginate # <<>>) =>
        LET last == hist.paginate[Len(hist.paginate)]
            page == last[1]
            page_size == last[2]
            skip == (page - 1) * page_size
            full == ResultRows([ret.query EXCEPT !.lim = NoneVal, !.off = NoneVal],
                               db, ret.pick)
        IN  (page >= 1 /\ page_size >= 0) =>
                /\ Len(LastRows) <= page_size
                /\ LastRows = SubSeq(full, skip + 1, Min(skip + page_size, Len(full)))

\* C4 (as claimed): first() returns the first element of what list() returns
\* for the same queryset state, and None when that is empty.
C4_FirstIsHeadOfList ==
    (ret.op = "first" /\ ~ ret.err) =>
        \E pick \in Picks(list_query(qs)) :
            ret.val = first_of(list_result(qs, session_execute(list_query(qs), db, pick).rows))

\* C5 (as claimed): on a queryset made by select() without fields and never
\* paginated, count() returns the number of rows matched by the query that
\* list() executes.
C5_CountMatchesList ==
    (ret.op = "count" /\ ~ ret.err /\ hist.select = NoneVal /\ hist.paginate = <<>>
       /\ ~ DuplicateTarget(qs._joins)) =>
        \E pick \in Picks(list_query(qs)) :
            ret.val = Len(session_execute(list_query(qs), db, pick).rows)

\* the users a result can hold as model instances
Instances == {db.users[i] : i \in 1..Len(db.users)}

NoDuplicates(s) == \A i, j \in 1..Len(s) : s[i] = s[j] => i = j

\* the tuple of the selected fields of one record
FieldsOf(fields, row) == [k \in 1..Len(fields) |-> ColumnValue(fields[k], row)]

\* C6: without fields, list() returns the matched model instances without
\* duplicates and first() an instance or None; with fields f1..fn, list()
\* returns for every matched record, duplicates included, the row of exactly
\* those fields, and first() one such row or None.
C6_SelectShapes ==
    /\ (ret.op = "list" /\ ~ ret.err /\ hist.select = NoneVal) =>
          /\ NoDuplicates(ret.val)
          /\ {ret.val[i] : i \in 1..Len(ret.val)} = {LastPage[i].u : i \in 1..Len(LastPage)}
          /\ \A i \in 1..Len(ret.val) : ret.val[i] \in Instances
    /\ (ret.op = "first" /\ ~ ret.err /\ hist.select = NoneVal) =>
          \/ ret.val = NoneVal
          \/ Len(ret.val) = 1 /\ ret.val[1] \in Instances
    /\ (ret.op = "list" /\ ~ ret.err /\ hist.select # NoneVal) =>
          /\ Len(ret.val) = Len(LastPage)
          /\ \A i \in 1..Len(ret.val) : ret.val[i] = FieldsOf(hist.select, LastPage[i])
    /\ (ret.op = "first" /\ ~ ret.err /\ hist.select # NoneVal) =>
          \/ ret.val = NoneVal
          \/ Len(ret.val) = 1 /\ \E u \in Instances :
                 ret.val[1] = FieldsOf(hist.select, [u |-> u, p |-> NoPost])

C6_Witness ==
    /\ ret.op = "list" /\ ~ ret.err
    /\ hist.select = <<"User.name", "User.age">>
    /\ Len(ret.val) = 3 /\ ret.val[1] = ret.val[3]

----------------------------------------------------------------------------
(* Properties of create / update / bulk_update / delete *)

CrudOps == {"create", "update", "bulk_update", "delete"}

Occurs(e, log) == \E i \in 1..Len(log) : log[i] = e
Begins(log) == Cardinality({i \in 1..Len(log) : log[i] = "begin"})
BodyRaised(log) == Occurs("raise", log)
CommitFailed(log) == Occurs("flush-error", log)
Committed(log) == log # <<>> /\ log[Len(log)] = "commit"
RolledBack(log) == log # <<>> /\ log[Len(log)] = "rollback"

\* C7 (as claimed): every call runs in exactly one transaction, which is
\* committed if and only if the body completes without an exception; create
\* returns its object only after the commit; when the body raises, the
\* transaction is rolled back, the database is as before the call and the
\* caller gets the exception.
C7_CommitIffBodyCompletes ==
    [][ret'.op \in CrudOps =>
          /\ Begins(txlog') = 1
          /\ Committed(txlog') <=> ~ BodyRaised(txlog')
          /\ (ret'.op = "create" /\ ~ ret'.err) =>
                 Committed(txlog') /\ ret'.val[1] = db'.users[Len(db'.users)]
          /\ BodyRaised(txlog') => RolledBack(txlog') /\ db' = db /\ ret'.err]_vars

\* C7 (amended): every call runs in exactly one transaction, which is
\* committed if and only if the body completes without an exception and the
\* commit itself, which flushes the INSERT of create, does not fail; create
\* returns its object only after the commit; when the body or the commit
\* raises, the transaction is rolled back, the database is as before the
\* call and the caller gets the exception.
C7_CommitIffBodyAndFlushComplete ==
    [][ret'.op \in CrudOps =>
          /\ Begins(txlog') = 1
          /\ Committed(txlog') <=> (~ BodyRaised(txlog') /\ ~ CommitFailed(txlog'))
          /\ Committed(txlog') <=> ~ ret'.err
          /\ (ret'.op = "create" /\ ~ ret'.err) =>
                 Committed(txlog') /\ ret'.val[1] = db'.users[Len(db'.users)]
          /\ (BodyRaised(txlog') \/ CommitFailed(txlog')) =>
                 RolledBack(txlog') /\ db' = db /\ ret'.err]_vars

C7_Witness ==
    /\ ret.op = "create" /\ ret.err
    /\ CommitFailed(txlog) /\ RolledBack(txlog)

\* the value column c of row has after the dicts of L were applied in list
\* order, each to the rows whose key_field column equals its key value: the
\* one of the last dict that matches the row and sets c
LastWriter(row, L, key_field, c) ==
    LET writers == {i \in 1..Len(L) : L[i][key_field] = row[key_field] /\ c \in DOMAIN L[i]}
    IN  IF writers = {} THEN row[c]
        ELSE L[CHOOSE i \in writers : \A j \in writers : j <= i][c]

\* C8: bulk_update applies the dicts in list order, each to the rows whose
\* key_field column equals its key value, and is all-or-nothing: when a dict
\* lacks key_field or a statement fails the call raises and the table is as
\* it was before the call.
C8_BulkUpdateAtomicOrdered ==
    [][ret'.op = "bulk_update" =>
          LET L == ret'.args[1]
              key_field == ret'.args[2]
          IN  /\ (\E i \in 1..Len(L) : key_field \notin DOMAIN L[i]) => ret'.err
              /\ ret'.err => db' = db
              /\ ~ ret'.err =>
                    /\ Len(db'.users) = Len(db.users)
                    /\ \A r \in 1..Len(db.users) : \A c \in Columns :
                          db'.users[r][c] = LastWriter(db.users[r], L, key_field, c)]_vars

C8_Witness ==
    /\ ret.op = "bulk_update" /\ ret.err
    /\ txlog = <<"begin", "execute", "execute", "raise", "rollback">>

----------------------------------------------------------------------------
(* Properties of BaseModel *)

Range(q) == {q[i] : i \in 1..Len(q)}

Commits == Cardinality({i \in 1..Len(events) : events[i].e = "commit"})

\* C9 (as claimed): save() on an instance with queued models adds the
\* instance and every queued model to one session, commits once and returns
\* the instance, whose queue is then empty.
C9_SaveWithQueue ==
    (mret.op = "save" /\ mret.queued # <<>>) =>
        /\ ~ mret.err
        /\ mret.val = mret.self
        /\ \A m \in {mret.self} \cup Range(mret.queued) :
              /\ m \in persisted
              /\ \E i \in 1..Len(events) : events[i] = Ev("add", m)
        /\ Commits = 1
        /\ lists[model_list(mret.self)] = <<>>

\* C10 (as claimed): when save_all(models) returns for a non-empty list of
\* instances, every model of the list is persisted.
C10_SaveAllPersists ==
    (mret.op = "save_all" /\ mret.queued # <<>>) =>
        Range(mret.queued) \subseteq persisted


\* C11 (as claimed): delete() on a persisted instance removes it through the
\* session and commits, returning normally; it raises only when the delete
\* or the commit of the database fails.
C11_DeleteRemovesPersisted ==
    [][(mret'.op = "delete" /\ mret'.self \in persisted) =>
          /\ mret'.fail = "none" =>
                /\ ~ mret'.err
                /\ mret'.self \notin persisted'
                /\ \E i \in 1..Len(events') : events'[i] = Ev("commit", mret'.self)
          /\ mret'.err => mret'.cause \in {Some("delete"), Some("commit")}]_vars

NO_ARG == "NO_ARG"

\* a Python dict is a function on its keys; the values used here are strings,
\* "None" standing for None
EmptyDict == [k \in {} |-> "None"]

Put(d, k, v) == [x \in DOMAIN d \cup {k} |-> IF x = k THEN v ELSE d[x]]

\* the keyword arguments of Column with their defaults in the signature
Column_defaults ==
    [type_pos |-> "None", init |-> NO_ARG, default |-> NO_ARG,
     nullable |-> "NULL_UNSPECIFIED", primary_key |-> FALSE,
     autoincrement |-> "auto", index |-> "None",
     insert_default |-> NO_ARG, server_default |-> "None"]

\* the calls of Column that are explored
ColumnArgs ==
    [type_pos : {"Integer", "String"}, init : {NO_ARG, "True", "False"},
     default : {NO_ARG, "value"},
     nullable : {"None", "True", "False", "NULL_UNSPECIFIED"},
     primary_key : BOOLEAN, autoincrement : {"auto"}, index : {"None", "True"},
     insert_default : {NO_ARG, "insert_value"},
     server_default : {"None", "server_value"}]

\* Column as it would be if it forwarded init whatever nullable is
Column_kwargs_keep_init(args) ==
    IF args.nullable \in {"None", "True", "NULL_UNSPECIFIED"}
    THEN [args EXCEPT !.nullable = "True"]
    ELSE args

\* Column: the arguments it hands to MappedColumn
Column_kwargs(args) ==
    IF args.nullable \in {"None", "True", "NULL_UNSPECIFIED"}
    THEN [args EXCEPT !.init = "False", !.nullable = "True"]
    ELSE args

\* MappedColumn(..., attribute_options=_AttributeOptions(init, ..., default, ...)):
\* the dataclass options and the Column it builds.  The Column's default is
\* insert_default when given, else the dataclass default when given; its
\* nullable is "not primary_key" when unspecified, else as given.
MappedColumn(kw) ==
    [kwargs |-> kw,
     attribute_options |-> [init |-> kw.init, default |-> kw.default],
     column |-> [nullable |-> IF kw.nullable = "NULL_UNSPECIFIED"
                              THEN (IF kw.primary_key THEN "False" ELSE "True")
                              ELSE kw.nullable,
                 primary_key |-> kw.primary_key,
                 default |-> IF kw.insert_default # NO_ARG THEN kw.insert_default
                             ELSE IF kw.default # NO_ARG THEN kw.default
                             ELSE "None",
                 server_default |-> kw.server_default,
                 autoincrement |-> kw.autoincrement]]

Column(args) == MappedColumn(Column_kwargs(args))

\* one attribute of a declarative class: its key and its mapped column
Attr(key, args) == [key |-> key, col |-> Column(args)]

\* class User(BaseModel): the columns in the order of their declaration
User ==
    << Attr("id", [Column_defaults EXCEPT !.type_pos = "Integer", !.primary_key = TRUE,
                                           !.autoincrement = "True", !.init = "False"]),
       Attr("username", [Column_defaults EXCEPT !.type_pos = "String", !.index = "True",
                                                 !.nullable = "False"]),
       Attr("email", [Column_defaults EXCEPT !.type_pos = "String", !.index = "True",
                                              !.nullable = "False"]),
       Attr("address", [Column_defaults EXCEPT !.type_pos = "String", !.nullable = "True"]),
       Attr("house", [Column_defaults EXCEPT !.type_pos = "String", !.nullable = "True"]),
       Attr("road", [Column_defaults EXCEPT !.type_pos = "String"]),
       Attr("is_active", [Column_defaults EXCEPT !.type_pos = "Boolean", !.default = "True"]),
       Attr("created_at", [Column_defaults EXCEPT !.type_pos = "DateTime",
                                                   !.default = "datetime.now"]) >>

\* a second subclass of BaseModel, none of whose columns is required
Note ==
    << Attr("id", [Column_defaults EXCEPT !.type_pos = "Integer", !.primary_key = TRUE,
                                           !.init = "False"]),
       Attr("address", [Column_defaults EXCEPT !.type_pos = "String", !.nullable = "True"]) >>

\* a class with the single column c declared by Column(args)
One(args) == << Attr("c", args) >>

\* if not column.nullable and not column.primary_key
\*    and column.default is None and column.server_default is None
is_required(column) ==
    /\ column.nullable # "True"
    /\ ~ column.primary_key
    /\ column.default = "None"
    /\ column.server_default = "None"

\* _get_required_fields as it would be if it did not look at primary_key
get_required_fields_nopk(model) ==
    LET F[i \in 0..Len(model)] ==
            IF i = 0 THEN <<>>
            ELSE IF /\ model[i].col.column.nullable # "True"
                    /\ model[i].col.column.default = "None"
                    /\ model[i].col.column.server_default = "None"
                 THEN Append(F[i - 1], model[i].key)
                 ELSE F[i - 1]
    IN  F[Len(model)]

\* _get_required_fields(model): the loop over mapper.columns
get_required_fields(model) ==
    LET F[i \in 0..Len(model)] ==
            IF i = 0 THEN <<>>
            ELSE IF is_required(model[i].col.column)
                 THEN Append(F[i - 1], model[i].key)
                 ELSE F[i - 1]
    IN  F[Len(model)]

\* "Required field '{}' is missing".format(required_field)
missing_message(required_field) == <<"Required field '", required_field, "' is missing">>

\* _get_required_field_values as it would be if it raised at the first
\* missing field
get_required_field_values_first(model, data, raise_exception) ==
    LET required_fields == get_required_fields(model)
        absent(i) == \/ required_fields[i] \notin DOMAIN data
                     \/ data[required_fields[i]] = "None"
        L[i \in 0..Len(required_fields)] ==
            IF i = 0 THEN [name_value_pairs |-> EmptyDict, exception_messages |-> <<>>]
            ELSE IF absent(i)
                 THEN IF L[i - 1].exception_messages # <<>> /\ raise_exception
                      THEN L[i - 1]
                      ELSE [L[i - 1] EXCEPT !.exception_messages =
                               Append(@, <<required_fields[i],
                                           missing_message(required_fields[i])>>)]
                 ELSE [L[i - 1] EXCEPT !.name_value_pairs =
                          Put(@, required_fields[i], data[required_fields[i]])]
        end == L[Len(required_fields)]
    IN  IF end.exception_messages # <<>> /\ raise_exception
        THEN [raised |-> TRUE, error |-> "Exception",
              messages |-> end.exception_messages, val |-> EmptyDict]
        ELSE [raised |-> FALSE, error |-> "none",
              messages |-> <<>>, val |-> end.name_value_pairs]

\* _get_required_field_values(model, data, raise_exception): the loop over
\* the required fields, then the raise or the return.  exception_messages
\* is kept as the sequence of its (key, message) entries in insertion order.
get_required_field_values(model, data, raise_exception) ==
    LET required_fields == get_required_fields(model)
        absent(i) == \/ required_fields[i] \notin DOMAIN data
                     \/ data[required_fields[i]] = "None"
        L[i \in 0..Len(required_fields)] ==
            IF i = 0 THEN [name_value_pairs |-> EmptyDict, exception_messages |-> <<>>]
            ELSE IF absent(i)
                 THEN [L[i - 1] EXCEPT !.exception_messages =
                          Append(@, <<required_fields[i],
                                      missing_message(required_fields[i])>>)]
                 ELSE [L[i - 1] EXCEPT !.name_value_pairs =
                          Put(@, required_fields[i], data[required_fields[i]])]
        end == L[Len(required_fields)]
    IN  IF end.exception_messages # <<>> /\ raise_exception
        THEN [raised |-> TRUE, error |-> "Exception",
              messages |-> end.exception_messages, val |-> EmptyDict]
        ELSE [raised |-> FALSE, error |-> "none",
              messages |-> <<>>, val |-> end.name_value_pairs]

\* the keys of the columns of a model
ColumnKeys(model) == {model[i].key : i \in 1..Len(model)}

ColumnOf(model, key) == (CHOOSE i \in 1..Len(model) : model[i].key = key)

\* model(**name_value_pairs): the __init__ of the mapped dataclass takes the
\* columns whose init option is not False, and demands those among them that
\* have no dataclass default; attributes it does not set are None.
construct(model, name_value_pairs) ==
    LET opts(k) == model[ColumnOf(model, k)].col.attribute_options
        init_keys == {k \in ColumnKeys(model) : opts(k).init # "False"}
        demanded == {k \in init_keys : opts(k).default = NO_ARG}
    IN  IF ~ (DOMAIN name_value_pairs \subseteq init_keys)
           \/ ~ (demanded \subseteq DOMAIN name_value_pairs)
        THEN [raised |-> TRUE, error |-> "TypeError", val |-> NoneVal]
        ELSE [raised |-> FALSE, error |-> "none",
              val |-> Some([id |-> "new",
                            attrs |-> [k \in ColumnKeys(model) |->
                                          IF k \in DOMAIN name_value_pairs
                                          THEN name_value_pairs[k]
                                          ELSE IF opts(k).default # NO_ARG
                                               THEN opts(k).default
                                               ELSE "None"]])]

\* the DTO classes: Meta.model and the fields declared next to the generated
\* ones, each required and not allowing None
UserDTO == [model |-> User, declared |-> {"email"}]

NoteDTO == [model |-> Note, declared |-> {}]

DTOs == {UserDTO, NoteDTO}

\* self.load(data=data, unknown=EXCLUDE): a field is generated for every
\* column of Meta.model, required when the column is not nullable and has no
\* default, allowing None when the column is nullable; keys without a field
\* are dropped; a required field that is absent, or a None where it is not
\* allowed, makes load raise ValidationError.
load(schema, data) ==
    LET model == schema.model
        column(k) == model[ColumnOf(model, k)].col.column
        known == ColumnKeys(model) \cup schema.declared
        required == schema.declared \cup
                    {k \in ColumnKeys(model) :
                        /\ column(k).nullable # "True"
                        /\ column(k).default = "None"
                        /\ column(k).server_default = "None"
                        /\ ~ (column(k).primary_key /\ column(k).autoincrement # "False")}
        allow_none == {k \in ColumnKeys(model) \ schema.declared : column(k).nullable = "True"}
        errors == (required \ DOMAIN data) \cup
                  {k \in (DOMAIN data \cap known) \ allow_none : data[k] = "None"}
    IN  IF errors # {}
        THEN [raised |-> TRUE, error |-> "ValidationError", val |-> EmptyDict]
        ELSE [raised |-> FALSE, error |-> "none",
              val |-> [k \in DOMAIN data \cap known |-> data[k]]]

\* _get_model_instance(data): _get_required_field_values with
\* raise_exception=True, then model(**name_value_pairs)
get_model_instance(schema, data) ==
    LET name_value_pairs == get_required_field_values(schema.model, data, TRUE)
    IN  IF name_value_pairs.raised
        THEN [raised |-> TRUE, error |-> name_value_pairs.error, val |-> NoneVal]
        ELSE construct(schema.model, name_value_pairs.val)

\* the loop of to_model as it would be if it also cleared the attributes
\* that data does not name
set_attributes_reset(model_instance, data) ==
    [model_instance EXCEPT !.attrs =
        [k \in DOMAIN model_instance.attrs |->
            IF k \in DOMAIN data THEN data[k] ELSE "None"]]

\* for key, value in data.items(): if hasattr(...): setattr(...)
\* (the keys used here name no method or class attribute of BaseModel)
set_attributes(model_instance, data) ==
    [model_instance EXCEPT !.attrs =
        [k \in DOMAIN model_instance.attrs |->
            IF k \in DOMAIN data THEN data[k] ELSE model_instance.attrs[k]]]

\* to_model(data, model_instance): model_instance is NoneVal or Some(instance)
to_model(schema, data, model_instance) ==
    LET validated_dict == load(schema, data)
    IN  IF validated_dict.raised
        THEN [raised |-> TRUE, error |-> validated_dict.error, val |-> NoneVal]
        ELSE IF DOMAIN validated_dict.val = {}
        THEN [raised |-> FALSE, error |-> "none", val |-> NoneVal]
        ELSE LET made == IF model_instance = NoneVal
                         THEN get_model_instance(schema, data)
                         ELSE [raised |-> FALSE, error |-> "none", val |-> model_instance]
             IN  IF made.raised THEN made
                 ELSE [raised |-> FALSE, error |-> "none",
                       val |-> Some(set_attributes(made.val[1], data))]

\* the dicts handed to the DTO: each key absent, None or a value
DataKeys == {"username", "email", "address", "bogus"}

DataDicts == UNION {[K -> {"None", "v"}] : K \in SUBSET DataKeys}

\* an instance loaded earlier, handed to to_model for an update
Given(schema) ==
    [id |-> "given", attrs |-> [k \in ColumnKeys(schema.model) |-> "old"]]

\* each call below is made on a fresh DTO, once: the functions are pure and
\* the record dto keeps the call and its outcome
call_Column(args) ==
    /\ dto.op = "none"
    /\ dto' = [op |-> "Column", args |-> args, out |-> Column(args)]
    /\ UNCHANGED <<db, qs, hist, executed, terminals, ret, txlog, modelVars, sess, tasks>>

call_get_required_fields(model) ==
    /\ dto.op = "none"
    /\ dto' = [op |-> "_get_required_fields", model |-> model,
               out |-> get_required_fields(model)]
    /\ UNCHANGED <<db, qs, hist, executed, terminals, ret, txlog, modelVars, sess, tasks>>

call_get_required_field_values(model, data, raise_exception) ==
    /\ dto.op = "none"
    /\ dto' = [op |-> "_get_required_field_values", model |-> model, data |-> data,
               raise_exception |-> raise_exception,
               out |-> get_required_field_values(model, data, raise_exception)]
    /\ UNCHANGED <<db, qs, hist, executed, terminals, ret, txlog, modelVars, sess, tasks>>

call_to_model(schema, data, model_instance) ==
    /\ dto.op = "none"
    /\ dto' = [op |-> "to_model", schema |-> schema, data |-> data,
               model_instance |-> model_instance,
               loaded |-> load(schema, data),
               out |-> to_model(schema, data, model_instance)]
    /\ UNCHANGED <<db, qs, hist, executed, terminals, ret, txlog, modelVars, sess, tasks>>

InitDto ==
    /\ db = DB0
    /\ qs = AsyncQuerySet("User", NoneVal)
    /\ hist = NoHist
    /\ executed = 0
    /\ terminals = 0
    /\ ret = [op |-> "none", err |-> FALSE, args |-> <<>>, val |-> NoneVal]
    /\ txlog = NoTx
    /\ InitModelVars
    /\ InitOtherVars

NextDto ==
    \/ \E args \in ColumnArgs : call_Column(args)
    \/ \E args \in ColumnArgs : call_get_required_fields(One(args))
    \/ \E model \in {User, Note} : call_get_required_fields(model)
    \/ \E model \in {User, Note}, data \in DataDicts, raise_exception \in BOOLEAN :
          call_get_required_field_values(model, data, raise_exception)
    \/ \E schema \in DTOs, data \in DataDicts :
          \E model_instance \in {NoneVal, Some(Given(schema))} :
              call_to_model(schema, data, model_instance)

SpecDto == InitDto /\ [][NextDto]_vars


\* C12: a column is in the result of _get_required_fields exactly when it is
\* not nullable, is no primary key and has neither a default nor a server
\* default; for User the result is username and email and nothing else.
C12_RequiredColumns ==
    /\ dto.op = "_get_required_fields" =>
          \A i \in 1..Len(dto.model) :
              LET c == dto.model[i].col.column
              IN  (\E j \in 1..Len(dto.out) : dto.out[j] = dto.model[i].key)
                  <=> (c.nullable # "True" /\ ~ c.primary_key
                       /\ c.default = "None" /\ c.server_default = "None")
    /\ (dto.op = "_get_required_fields" /\ dto.model = User) =>
          Range(dto.out) = {"username", "email"} /\ Len(dto.out) = 2

C12_Witness ==
    /\ dto.op = "_get_required_fields"
    /\ dto.model = User
    /\ dto.out = <<"username", "email">>

\* the dict holds for every key of data that is an attribute of the instance
\* the value that data gives it
Carries(instance, data) ==
    \A k \in DOMAIN data \cap DOMAIN instance.attrs : instance.attrs[k] = data[k]

\* the required fields that data lacks or maps to None
Lacking(model, data) ==
    {model[i].key : i \in {j \in 1..Len(model) :
        /\ is_required(model[j].col.column)
        /\ (model[j].key \notin DOMAIN data \/ data[model[j].key] = "None")}}

\* to_model without a model_instance, as claimed and as amended
ToModelNew ==
    (dto.op = "to_model" /\ dto.model_instance = NoneVal) =>
        /\ Lacking(dto.schema.model, dto.data) # {} => dto.out.raised
        /\ (~ dto.loaded.raised /\ DOMAIN dto.loaded.val = {}) =>
              (~ dto.out.raised /\ dto.out.val = NoneVal)
        /\ (~ dto.out.raised /\ dto.out.val # NoneVal) =>
              /\ dto.out.val[1].id = "new"
              /\ DOMAIN dto.out.val[1].attrs = ColumnKeys(dto.schema.model)
              /\ Carries(dto.out.val[1], dto.data)
              /\ \A k \in DOMAIN dto.out.val[1].attrs \ DOMAIN dto.data :
                    dto.out.val[1].attrs[k] \in {"None", "True", "datetime.now"}

\* C13 (as claimed): without a model_instance to_model returns a new instance
\* carrying the keys of data, raises when a required field is lacking and
\* returns None when the loaded dict is empty; with a model_instance it
\* updates and returns that same instance, whatever data holds.
C13_ToModel ==
    /\ ToModelNew
    /\ (dto.op = "to_model" /\ dto.model_instance # NoneVal) =>
          /\ ~ dto.out.raised
          /\ dto.out.val # NoneVal
          /\ dto.out.val[1].id = "given"
          /\ Carries(dto.out.val[1], dto.data)

\* C13 (amended): as claimed without a model_instance; with a
\* model_instance, load still validates data first: the call raises
\* ValidationError when load does, returns None when the loaded dict is
\* empty, and otherwise updates and returns that same instance, keeping the
\* attributes data does not name, with no further required-field check.
C13_ToModelAfterLoad ==
    /\ ToModelNew
    /\ (dto.op = "to_model" /\ dto.model_instance # NoneVal) =>
          /\ dto.loaded.raised
                => (dto.out.raised /\ dto.out.error = "ValidationError")
          /\ (~ dto.loaded.raised /\ DOMAIN dto.loaded.val = {})
                => (~ dto.out.raised /\ dto.out.val = NoneVal)
          /\ (~ dto.loaded.raised /\ DOMAIN dto.loaded.val # {}) =>
                /\ ~ dto.out.raised
                /\ dto.out.val # NoneVal
                /\ dto.out.val[1].id = "given"
                /\ Carries(dto.out.val[1], dto.data)
                /\ \A k \in DOMAIN dto.out.val[1].attrs \ DOMAIN dto.data :
                      dto.out.val[1].attrs[k] = dto.model_instance[1].attrs[k]

C13_Witness ==
    /\ dto.op = "to_model"
    /\ dto.model_instance # NoneVal
    /\ dto.schema = UserDTO
    /\ ~ dto.out.raised
    /\ dto.out.val # NoneVal
    /\ dto.out.val[1].id = "given"
    /\ dto.out.val[1].attrs["address"] = "v"
    /\ dto.out.val[1].attrs["house"] = "old"

\* the arguments of Column other than init and nullable
OtherArguments ==
    {"type_pos", "default", "primary_key", "autoincrement", "index",
     "insert_default", "server_default"}

\* C14: Column forwards every argument unchanged, except that with nullable
\* None, True or unspecified it forwards nullable=True and init=False; with
\* nullable False both init and nullable are forwarded as given.
C14_ColumnPassThrough ==
    dto.op = "Column" =>
        LET given == dto.args
            forwarded == dto.out.kwargs
        IN  /\ \A a \in OtherArguments : forwarded[a] = given[a]
            /\ given.nullable \in {"None", "True", "NULL_UNSPECIFIED"} =>
                  /\ forwarded.nullable = "True" /\ forwarded.init = "False"
                  /\ dto.out.column.nullable = "True"
                  /\ dto.out.attribute_options.init = "False"
            /\ given.nullable = "False" =>
                  /\ forwarded.nullable = "False" /\ forwarded.init = given.init
                  /\ dto.out.column.nullable = "False"
                  /\ dto.out.attribute_options.init = given.init

C14_Witness ==
    /\ dto.op = "Column"
    /\ dto.args.nullable = "NULL_UNSPECIFIED"
    /\ dto.args.init = "True"
    /\ dto.out.kwargs.init = "False"
    /\ dto.out.kwargs.nullable = "True"

\* C18: with raise_exception true and a required field absent or None, one
\* Exception is raised whose messages name every such field; otherwise the
\* result holds exactly the required fields present with a value other than
\* None, each with its value in data.
C18_RequiredFieldValues ==
    dto.op = "_get_required_field_values" =>
        LET required == {dto.model[i].key : i \in {j \in 1..Len(dto.model) :
                            is_required(dto.model[j].col.column)}}
            lacking == Lacking(dto.model, dto.data)
        IN  IF dto.raise_exception /\ lacking # {}
            THEN /\ dto.out.raised
                 /\ dto.out.error = "Exception"
                 /\ {dto.out.messages[i][1] : i \in 1..Len(dto.out.messages)} = lacking
                 /\ Len(dto.out.messages) = Cardinality(lacking)
            ELSE /\ ~ dto.out.raised
                 /\ DOMAIN dto.out.val = required \ lacking
                 /\ \A k \in DOMAIN dto.out.val : dto.out.val[k] = dto.data[k]

C18_Witness ==
    /\ dto.op = "_get_required_field_values"
    /\ dto.raise_exception
    /\ dto.model = User
    /\ "address" \in DOMAIN dto.data
    /\ dto.out.raised
    /\ Len(dto.out.messages) = 2


\* old is a prefix of new
IsPrefix(old, new) == Len(old) <= Len(new) /\ SubSeq(new, 1, Len(old)) = old

\* C15: where, order_by, group_by and join return the queryset they were
\* called on and only append to their own list: each list is the
\* concatenation of the arguments of the calls of its kind in call order,
\* a call leaves the other lists alone and the entries already there in
\* place, and where(a) followed by where(b) gives what where(a, b) gives.
C15_AppendOnlyFluent ==
    /\ [](/\ qs._filters = Flatten(hist.where)
          /\ qs._order = Flatten(hist.order_by)
          /\ qs._group = Flatten(hist.group_by)
          /\ qs._joins = hist.join)
    /\ [][ret'.op \in {"where", "order_by", "group_by", "join"} =>
            /\ ret'.val = "self"
            /\ qs'.model = qs.model /\ qs'._fields = qs._fields
            /\ qs'._limit = qs._limit /\ qs'._offset = qs._offset
            /\ IsPrefix(qs._filters, qs'._filters) /\ IsPrefix(qs._order, qs'._order)
            /\ IsPrefix(qs._group, qs'._group) /\ IsPrefix(qs._joins, qs'._joins)
            /\ ret'.op # "where" => qs'._filters = qs._filters
            /\ ret'.op # "order_by" => qs'._order = qs._order
            /\ ret'.op # "group_by" => qs'._group = qs._group
            /\ ret'.op # "join" => qs'._joins = qs._joins
            /\ ret'.op = "where" =>
                  LET ab == hist'.where[Len(hist'.where)]
                  IN  \A n \in 0..Len(ab) :
                        qs'._filters = (qs._filters \o SubSeq(ab, 1, n))
                                          \o SubSeq(ab, n + 1, Len(ab))]_vars

C15_Witness ==
    /\ hist.where = << <<"User.age >= 18">>, <<"User.name == Ann">> >>
    /\ qs._filters = <<"User.age >= 18", "User.name == Ann">>
    /\ Len(hist.order_by) = 1
    /\ ret.op = "order_by" /\ ret.val = "self"

\* C16: list, first and count change nothing of the queryset and keep no
\* result; the same terminal operation called again on the unchanged
\* queryset executes the same query once more.
C16_TerminalsLeaveState ==
    [][ret'.op \in TerminalOps =>
          /\ qs' = qs
          /\ hist' = hist
          /\ executed' = executed + 1
          /\ ret.op = ret'.op => ret'.query = ret.query]_vars

C16_Witness ==
    /\ terminals = 2 /\ executed = 2
    /\ ret.op = "first"
    /\ qs._limit = Some(2) /\ qs._filters # <<>>


\* ---------------------------------------------------------------------------
\* query_ex1: the sessions of AsyncBaseModel, called from concurrent tasks
\* ---------------------------------------------------------------------------

\* the operations that call get_session()
SessionOps == {"select", "create", "update", "bulk_update", "delete"}

\* those that run in "async with session.begin()"
TransactionOps == {"create", "update", "bulk_update", "delete"}

\* AsyncSessionFactory() as it would be if it handed out one session again
\* and again (a scoped session)
AsyncSessionFactory_scoped(sessions) == IF sessions = <<>> THEN 1 ELSE Len(sessions)

\* AsyncSessionFactory(): a new AsyncSession object on every call; sessions
\* are named by their position in sess
AsyncSessionFactory(sessions) == Len(sessions) + 1

get_session(sessions) == AsyncSessionFactory(sessions)

\* sess once the call op holds the session s: s is appended when it is new;
\* obtained counts the calls of get_session() that returned it
with_session(sessions, s, op, state) ==
    IF s > Len(sessions)
    THEN Append(sessions, [op |-> op, state |-> state, obtained |-> 1, terminals |-> 0])
    ELSE [sessions EXCEPT ![s].state = state, ![s].obtained = @ + 1]

\* select(): session = get_session(); return AsyncQuerySet(cls, session, ...)
\* The session is not used yet; select is no coroutine and returns at once.
task_select(t) ==
    /\ tasks[t].pc = "idle"
    /\ Len(sess) < MaxSessions
    /\ LET session == get_session(sess)
       IN  /\ sess' = with_session(sess, session, "select",
                                   IF session > Len(sess) THEN "new" ELSE sess[session].state)
           /\ tasks' = [tasks EXCEPT ![t] = [pc |-> "idle", op |-> "select", session |-> session]]
    /\ UNCHANGED <<db, qs, hist, executed, terminals, ret, txlog, modelVars, dto>>

\* list(), first() or count() on the queryset that holds session q:
\* await self.session.execute(q) begins the session's transaction, and
\* nothing ends it
task_terminal(t, q, op) ==
    /\ tasks[t].pc = "idle"
    /\ q \in 1..Len(sess)
    /\ sess[q].op = "select"
    /\ sess[q].terminals < MaxTerminals
    /\ sess' = [sess EXCEPT ![q].state = "transaction", ![q].terminals = @ + 1]
    /\ tasks' = [tasks EXCEPT ![t] = [pc |-> "idle", op |-> op, session |-> q]]
    /\ UNCHANGED <<db, qs, hist, executed, terminals, ret, txlog, modelVars, dto>>

\* create, update, bulk_update, delete up to their first await:
\* session = get_session(); async with session.begin():
task_enter(t, op) ==
    /\ tasks[t].pc = "idle"
    /\ Len(sess) < MaxSessions
    /\ LET session == get_session(sess)
       IN  /\ sess' = with_session(sess, session, op, "transaction")
           /\ tasks' = [tasks EXCEPT ![t] = [pc |-> "in_transaction", op |-> op,
                                             session |-> session]]
    /\ UNCHANGED <<db, qs, hist, executed, terminals, ret, txlog, modelVars, dto>>

\* the end of "async with session.begin()": commit, or rollback when the
\* body raised; the transaction is over, the session is left as it is
task_leave(t, raised) ==
    /\ tasks[t].pc = "in_transaction"
    /\ sess' = [sess EXCEPT ![tasks[t].session].state =
                   IF raised THEN "rolled_back" ELSE "committed"]
    /\ tasks' = [tasks EXCEPT ![t].pc = "idle"]
    /\ UNCHANGED <<db, qs, hist, executed, terminals, ret, txlog, modelVars, dto>>

InitSessions ==
    /\ db = DB0
    /\ qs = AsyncQuerySet("User", NoneVal)
    /\ hist = NoHist
    /\ executed = 0
    /\ terminals = 0
    /\ ret = [op |-> "none", err |-> FALSE, args |-> <<>>, val |-> NoneVal]
    /\ txlog = NoTx
    /\ InitModelVars
    /\ InitOtherVars

NextSessions ==
    \/ \E t \in Tasks : task_select(t)
    \/ \E t \in Tasks, q \in 1..MaxSessions, op \in TerminalOps : task_terminal(t, q, op)
    \/ \E t \in Tasks, op \in TransactionOps : task_enter(t, op)
    \/ \E t \in Tasks, raised \in BOOLEAN : task_leave(t, raised)

SpecSessions == InitSessions /\ [][NextSessions]_vars

\* the tasks that are inside a transaction
Running == {t \in Tasks : tasks[t].pc = "in_transaction"}

\* C19: every call of select, create, update, bulk_update or delete gets a
\* session no earlier call got, so no two of them, concurrent or not, use
\* the same session; a session is used more than once only by the terminal
\* operations of the queryset that holds it.
C19_SessionsNotShared ==
    /\ [](/\ \A i \in 1..Len(sess) :
                /\ sess[i].obtained = 1
                /\ sess[i].terminals > 0 => sess[i].op = "select"
          /\ \A t1 \in Running, t2 \in Running :
                t1 # t2 => tasks[t1].session # tasks[t2].session)
    /\ [][/\ Len(sess') >= Len(sess)
          /\ \A t \in Tasks :
                (tasks'[t] # tasks[t] /\ tasks'[t].op \in SessionOps /\ tasks[t].pc = "idle") =>
                    /\ tasks'[t].session = Len(sess) + 1
                    /\ Len(sess') = Len(sess) + 1
                    /\ SubSeq(sess', 1, Len(sess)) = sess]_vars

C19_Witness ==
    /\ Running = Tasks
    /\ tasks["t1"].session # tasks["t2"].session
    /\ \E i \in 1..Len(sess) : sess[i].op = "select" /\ sess[i].terminals = 2

\* the calls that hold session i have returned or raised
Finished(i) ==
    /\ \A t \in Running : tasks[t].session # i
    /\ sess[i].op = "select" => sess[i].terminals > 0

\* C20 (as claimed): a session is closed once the call that opened it has
\* returned or raised, for select once a terminal operation of its queryset
\* has returned.
C20_SessionsClosed ==
    \A i \in 1..Len(sess) : Finished(i) => sess[i].state = "closed"


\* the queryset that the calls recorded per kind give when they are made
\* kind after kind: all where calls, then order_by, group_by, join, and the
\* last paginate
Replay(h) ==
    [model |-> "User", _fields |-> h.select,
     _filters |-> Flatten(h.where), _order |-> Flatten(h.order_by),
     _group |-> Flatten(h.group_by), _joins |-> h.join,
     _limit |-> IF h.paginate = <<>> THEN NoneVal
                ELSE Some(h.paginate[Len(h.paginate)][2]),
     _offset |-> IF h.paginate = <<>> THEN NoneVal
                 ELSE Some((h.paginate[Len(h.paginate)][1] - 1)
                              * h.paginate[Len(h.paginate)][2])]

\* C21: whatever the interleaving of the builder calls, the queryset, and so
\* the query of list(), is the one given by the sequences of calls of each
\* kind and the last paginate.
C21_InterleavingIndependent ==
    /\ [](qs = Replay(hist))
    /\ [](ret.op = "list" => ret.query = list_query(Replay(hist)))
    /\ [][ret'.op \in BuilderOps => qs' = Replay(hist')]_vars

C21_Witness ==
    /\ ret.op = "list" /\ ~ ret.err
    /\ Len(hist.where) = 1 /\ Len(hist.order_by) = 1 /\ Len(hist.join) = 1
    /\ ret.query.whereC # <<>> /\ ret.query.orderC # <<>> /\ ret.query.joinC # <<>>

\* C22 (as claimed): after paginate(page, page_size) with page_size >= 1,
\* whatever integer page is, the limit and the offset of the query of list()
\* are not negative.
C22_NonNegativeWindow ==
    (ret.op = "list" /\ hist.paginate # <<>>
        /\ hist.paginate[Len(hist.paginate)][2] >= 1) =>
        /\ ret.query.lim # NoneVal => ret.query.lim[1] >= 0
        /\ ret.query.off # NoneVal => ret.query.off[1] >= 0


\* C23 (as claimed): a model queued with add() on one instance is in the
\* queue of no other instance, unless the caller handed both instances the
\* same list with add_all().
C23_QueuePerInstance ==
    mret.op = "add" =>
        \A other \in Models \ {mret.self} :
            (attr[other] = NoneVal \/ attr[other] # attr[mret.self]) =>
                mret.queued[1] \notin Range(lists[model_list(other)])

\* the positions of the events of one kind
At(e) == {i \in 1..Len(events) : events[i].e = e}

IsAfterSave(ev) == ev.e = "after_save"

====
